---- MODULE Spec2Model ----
(***************************************************************************)
(* A model of the Futurepedia crawl-and-enrich pipeline                    *)
(* (src/scrapers/futurepedia_scraper.py, src/scrape.py).                   *)
(*                                                                         *)
(* The specifications share the variables:                                 *)
(*   SpecPaginate   get_all_tools_from_category, one loop iteration a step *)
(*   SpecTranslate  OpenRouterTranslator.translate_dict on bounded inputs  *)
(*   SpecEnrich     scrape_tool_details, statement group by statement group*)
(*   SpecListPage   _list_page_tools on bounded inputs                      *)
(*   SpecClassify   _determine_app_type on bounded inputs                   *)
(*   Spec           scrape_category: listing, worker pool, collection,     *)
(*                  record store, seen-set and the category CSV, run any   *)
(*                  number of times for one category                       *)
(*   SpecBatch      scrape_all_categories: the same run, once per category *)
(*                  of the list, one after the other                       *)
(*   SpecBatchFair  SpecBatch under weak fairness                          *)
(*                                                                         *)
(* Abstractions.  A ToolInfo is [slug, name]: url is in one-to-one         *)
(* correspondence with slug (slug is its last path segment), and image,    *)
(* short_description and category play no part in control flow.  A write   *)
(* of a record file succeeds, fails at open (the file is as before) or     *)
(* fails after open (the file is left truncated).  A JSON value is a       *)
(* tagged record (JDict, JList, ...).                                      *)
(***************************************************************************)
EXTENDS Integers, Sequences, FiniteSets, TLC

\* ------------------------------------------------------------------ bounds

\* Config.MAX_PAGES_PER_CATEGORY (200 in _DefaultConfig), scaled down.
MAX_PAGES_PER_CATEGORY == 3

\* scrape_category's max_workers (default 4), scaled down.
max_workers == 2

\* Config.CONN_RETRIES: stop_max_attempt_number of both retry decorators.
CONN_RETRIES == 3

Slugs == {"a", "b"}

\* ----------------------------------------------------------------- helpers

RECURSIVE Flatten(_)
\* Concatenation of a sequence of sequences.
Flatten(ss) == IF ss = <<>> THEN <<>> ELSE Head(ss) \o Flatten(Tail(ss))

Range(f) == {f[i] : i \in DOMAIN f}

\* ---------------------------------------------------------- listing a page

\* A raw card as either extractor sees it: href reduced to the slug it yields
\* ("" is an empty href), and the heading text.
Card(slug, name) == [slug |-> slug, name |-> name]

\* The raw card lists of the listing pages of SpecPaginate: none, one, two,
\* the same slug twice, an empty href.
CardLists ==
    { <<>>, <<Card("a", "n1")>>, <<Card("b", "n1")>>,
      <<Card("a", "n1"), Card("b", "n1")>>,
      <<Card("a", "n1"), Card("b", "n1"), Card("a", "n2")>>,
      <<Card("", "n1")>>, <<Card("", "n1"), Card("b", "n2")>> }

ToolInfo(slug, name) == [slug |-> slug, name |-> name]

RECURSIVE FromFetchfoxCards(_)
\* Lines 278-289: a card with an empty href is skipped.
FromFetchfoxCards(cards) ==
    IF cards = <<>> THEN <<>>
    ELSE LET c == Head(cards)
             rest == FromFetchfoxCards(Tail(cards))
         IN IF c.slug = "" THEN rest ELSE <<ToolInfo(c.slug, c.name)>> \o rest

RECURSIVE ParseCardsBs4(_)
\* _parse_cards_bs4: every anchor whose href contains /tool/ gives a ToolInfo;
\* such an href is never empty.
ParseCardsBs4(cards) ==
    IF cards = <<>> THEN <<>>
    ELSE LET c == Head(cards)
             rest == ParseCardsBs4(Tail(cards))
         IN IF c.slug = "" THEN rest ELSE <<ToolInfo(c.slug, c.name)>> \o rest

\* Mutant of UniqPut: the first card of a slug is kept.
UniqPutKeepFirst(acc, t) ==
    IF \E j \in 1..Len(acc) : acc[j].slug = t.slug THEN acc ELSE Append(acc, t)

\* uniq[t.slug] = t on a dict that keeps insertion order: a slug seen before
\* keeps its place and takes the new value.
UniqPut(acc, t) ==
    IF \E j \in 1..Len(acc) : acc[j].slug = t.slug
    THEN [j \in 1..Len(acc) |-> IF acc[j].slug = t.slug THEN t ELSE acc[j]]
    ELSE Append(acc, t)

RECURSIVE UniqFrom(_, _)
UniqFrom(tools, acc) ==
    IF tools = <<>> THEN acc ELSE UniqFrom(Tail(tools), UniqPut(acc, Head(tools)))

\* Lines 305-309.
Uniq(tools) == UniqFrom(tools, <<>>)

\* What the network gives for one listing page.
\*   ff   "none"     _fetchfox returned None (no key, or the call failed) or {}
\*        "nocards"  a non-empty answer without the key "cards"
\*        "badcards" an answer whose "cards" is not a list of objects
\*        "cards"    an answer with a list of cards (ffcards)
\*   get  "ok" | "fail": _get returned, or raised after its retries
\*   html, next: the cards and the next-page signal of the fetched document
PageEnv(ff, ffcards, get, html, next) ==
    [ff |-> ff, ffcards |-> ffcards, get |-> get, html |-> html, next |-> next]

PageEnvs ==
    {PageEnv(ff, <<>>, "fail", <<>>, FALSE) : ff \in {"none", "nocards", "badcards"}}
    \cup {PageEnv(ff, <<>>, "ok", h, n) : ff \in {"none", "nocards"}, h \in CardLists, n \in BOOLEAN}
    \cup {PageEnv("cards", c, "fail", <<>>, FALSE) : c \in CardLists}
    \cup {PageEnv("cards", c, "ok", <<>>, n) : c \in CardLists, n \in BOOLEAN}

\* Line 277: if data and "cards" in data.
FetchfoxHasCards(env) == env.ff \in {"cards", "badcards"}

\* path: which extractor gave the cards ("fetchfox" | "bs4").
PageResult(raised, tools, has_next, path) ==
    [raised |-> raised, tools |-> tools, has_next |-> has_next, path |-> path]

\* Mutant of ProbeNext: a probe that fails counts as a next page.
ProbeNextAssumed(env) == env.get # "ok" \/ env.next

\* Lines 293-297: the GET that looks for rel=next; its failure is caught and
\* has_next is False.
ProbeNext(env) == IF env.get = "ok" THEN env.next ELSE FALSE

\* _list_page_tools.
ListPageTools(env) ==
    IF FetchfoxHasCards(env)
    THEN IF env.ff = "badcards"
         THEN PageResult(TRUE, <<>>, FALSE, "fetchfox")
         ELSE PageResult(FALSE, Uniq(FromFetchfoxCards(env.ffcards)), ProbeNext(env),
                         "fetchfox")
    ELSE IF env.get = "fail"
         THEN PageResult(TRUE, <<>>, FALSE, "bs4")
         ELSE PageResult(FALSE, Uniq(ParseCardsBs4(env.html)), env.next, "bs4")

\* Line 273: _fetchfox as _list_page_tools sees it.  Without a key no request
\* is made and the answer is None.
ListFetchfox(api_key, env) ==
    IF api_key = "" THEN [data |-> "none", posts |-> 0]
    ELSE [data |-> env.ff, posts |-> 1]

\* _list_page_tools with the FetchFox key: posts and gets count the requests
\* (a traceback in the FetchFox branch comes before the GET of line 294).
list_page_tools(api_key, env) ==
    LET r == ListFetchfox(api_key, env)
        res == ListPageTools([env EXCEPT !.ff = r.data])
    IN [raised |-> res.raised, tools |-> res.tools, has_next |-> res.has_next,
        path |-> res.path, posts |-> r.posts,
        gets |-> IF res.raised /\ res.path = "fetchfox" THEN 0 ELSE 1]

\* ------------------------------------------------------------- JSON values

\* A JSON value as json.loads gives it, tagged by its Python type: d is the
\* dict (a function from keys to strings), l the list (its items, each a
\* sequence of strings: a two-element item is a key/value pair), s the string.
JDict(f) == [type |-> "dict", d |-> f, l |-> <<>>, s |-> ""]

JList(items) == [type |-> "list", d |-> [k \in {} |-> ""], l |-> items, s |-> ""]

JStr(str) == [type |-> "str", d |-> [k \in {} |-> ""], l |-> <<>>, s |-> str]

JNum == [type |-> "num", d |-> [k \in {} |-> ""], l |-> <<>>, s |-> ""]

JNull == [type |-> "null", d |-> [k \in {} |-> ""], l |-> <<>>, s |-> ""]

\* The dict b laid over the dict a.
Merge(a, b) ==
    [k \in DOMAIN a \cup DOMAIN b |-> IF k \in DOMAIN b THEN b[k] ELSE a[k]]

\* -------------------------------------------------------- translate_dict

Langs == {"es", "pt", "fr", "de"}

\* Mutant of Marker: the blank after the bracket is lost.
MarkerNoBlank(target_lang, v) == "[TRANSLATE-" \o target_lang \o "]" \o v

\* Lines 128 and 162: f"[TRANSLATE-{target_lang}] {v}".
Marker(target_lang, v) == "[TRANSLATE-" \o target_lang \o "] " \o v

\* The marker-prefixed passthrough of lines 128 and 162.
Passthrough(payload_en, target_lang) ==
    JDict([k \in DOMAIN payload_en |-> Marker(target_lang, payload_en[k])])

\* The message content as a token string: "tick" a run of backticks, "json" the
\* word json, "ws" white space, "body" the JSON text, "prose" any other text.
Texts ==
    { <<"body">>,
      <<"ws", "body", "ws">>,
      <<"tick", "ws", "body", "ws", "tick">>,
      <<"tick", "json", "ws", "body", "ws", "tick", "ws">>,
      <<"json", "body">>,
      <<"prose", "ws", "body">>,
      <<"tick", "json", "ws", "body", "ws", "tick", "ws", "prose">>,
      <<"body", "prose">> }

RECURSIVE StripLeft(_, _)
StripLeft(toks, what) ==
    IF toks # <<>> /\ Head(toks) \in what THEN StripLeft(Tail(toks), what) ELSE toks

RECURSIVE StripRight(_, _)
StripRight(toks, what) ==
    IF toks # <<>> /\ toks[Len(toks)] \in what
    THEN StripRight(SubSeq(toks, 1, Len(toks) - 1), what)
    ELSE toks

\* str.strip(chars).
Strip(toks, what) == StripRight(StripLeft(toks, what), what)

\* Lines 156-158: text.strip().strip(backtick), then a leading "json" is cut and
\* the rest stripped again.
Defence(toks) ==
    LET t1 == Strip(Strip(toks, {"ws"}), {"tick"})
    IN IF t1 # <<>> /\ Head(t1) = "json" THEN Strip(Tail(t1), {"ws"}) ELSE t1

\* json.loads accepts one JSON text with white space around it.
JsonLoadsOk(toks) == Strip(toks, {"ws"}) = <<"body">>

\* The JSON the model wrote as the body, by its shape relative to the input:
\* the translation API is free to answer anything.
Shapes ==
    {"same", "missing", "extra", "renamed", "emptydict", "emptylist", "list",
     "pairlist", "emptystr", "str", "num", "null"}

ApiJson(shape, payload_en, target_lang) ==
    LET tr == [k \in DOMAIN payload_en |-> target_lang \o ":" \o payload_en[k]]
    IN CASE shape = "same" -> JDict(tr)
         [] shape = "missing" -> JDict([k \in DOMAIN payload_en \ {"title"} |-> tr[k]])
         [] shape = "extra" -> JDict(Merge(tr, [k \in {"note"} |-> "n"]))
         [] shape = "renamed" -> JDict([k \in {"titulo"} |-> "t"])
         [] shape = "emptydict" -> JDict([k \in {} |-> ""])
         [] shape = "emptylist" -> JList(<<>>)
         [] shape = "list" -> JList(<< <<"x">> >>)
         [] shape = "pairlist" -> JList(<< <<"note", "n">> >>)
         [] shape = "emptystr" -> JStr("")
         [] shape = "str" -> JStr("hola")
         [] shape = "num" -> JNum
         [] OTHER -> JNull

\* What the translation endpoint does with one request.
\*   kind  "neterr"    requests.post raised (connection, timeout)
\*         "http"      a non-2xx status: raise_for_status raised
\*         "notjson"   resp.json() raised
\*         "noshape"   data["choices"][0]["message"]["content"] raised
\*         "content"   a content string came back: toks, and the body's shape
TrResp(kind, toks, shape) == [kind |-> kind, toks |-> toks, shape |-> shape]

TrFailures == {TrResp(k, <<>>, "null") : k \in {"neterr", "http", "notjson", "noshape"}}

TrResponses == TrFailures \cup {TrResp("content", t, sh) : t \in Texts, sh \in Shapes}

\* Lines 150-159 raise somewhere.
TrRaises(resp) == resp.kind # "content" \/ ~JsonLoadsOk(Defence(resp.toks))

\* Line 159 on success: return json.loads(text).
TrLiveReturn(resp, payload_en, target_lang) ==
    ApiJson(resp.shape, payload_en, target_lang)

\* Line 126: if not self.api_key.
NoApiKey(api_key) == api_key = ""

\* translate_dict: ret is the value returned, posts the requests.post calls
\* made, warned whether logger.warning ran.
translate_dict(api_key, payload_en, target_lang, resp) ==
    IF NoApiKey(api_key)
    THEN [ret |-> Passthrough(payload_en, target_lang), posts |-> 0, warned |-> FALSE]
    ELSE IF TrRaises(resp)
    THEN [ret |-> Passthrough(payload_en, target_lang), posts |-> 1, warned |-> TRUE]
    ELSE [ret |-> TrLiveReturn(resp, payload_en, target_lang), posts |-> 1, warned |-> FALSE]

\* ----------------------------------------------------- scrape_tool_details

AllLangs == {"es", "pt", "en", "fr", "de"}

\* The field set of TOOL_TEMPLATE["translations"][lang].
Fields ==
    {"title", "shortDescription", "longDescription", "tags", "pricingInfo",
     "category", "appType"}

CATEGORY_TRANSLATIONS ==
    [c \in {"personal-assistant", "research-assistant", "spreadsheet-assistant",
            "translators", "presentations", "email-assistant", "search-engine",
            "prompt-generators", "writing-generators", "storyteller", "summarizer",
            "code-assistant", "no-code", "sql-assistant"} |->
       CASE c = "personal-assistant" ->
              [es |-> "asistente-personal", pt |-> "assistente-pessoal", en |-> "personal-assistant", fr |-> "assistant-personnel", de |-> "personlicher-assistent"]
         [] c = "research-assistant" ->
              [es |-> "asistente-investigacion", pt |-> "assistente-pesquisa", en |-> "research-assistant", fr |-> "assistant-recherche", de |-> "forschungsassistent"]
         [] c = "spreadsheet-assistant" ->
              [es |-> "asistente-hojas-calculo", pt |-> "assistente-planilhas", en |-> "spreadsheet-assistant", fr |-> "assistant-feuilles-calcul", de |-> "tabellenkalkulation-assistent"]
         [] c = "translators" ->
              [es |-> "traductores", pt |-> "tradutores", en |-> "translators", fr |-> "traducteurs", de |-> "ubersetzer"]
         [] c = "presentations" ->
              [es |-> "presentaciones", pt |-> "apresentacoes", en |-> "presentations", fr |-> "presentations", de |-> "prasentationen"]
         [] c = "email-assistant" ->
              [es |-> "asistente-email", pt |-> "assistente-email", en |-> "email-assistant", fr |-> "assistant-email", de |-> "email-assistent"]
         [] c = "search-engine" ->
              [es |-> "motor-busqueda", pt |-> "motor-busca", en |-> "search-engine", fr |-> "moteur-recherche", de |-> "suchmaschine"]
         [] c = "prompt-generators" ->
              [es |-> "generadores-prompts", pt |-> "geradores-prompts", en |-> "prompt-generators", fr |-> "generateurs-prompts", de |-> "prompt-generatoren"]
         [] c = "writing-generators" ->
              [es |-> "generadores-escritura", pt |-> "geradores-escrita", en |-> "writing-generators", fr |-> "generateurs-ecriture", de |-> "schreib-generatoren"]
         [] c = "storyteller" ->
              [es |-> "narrador", pt |-> "contador-historias", en |-> "storyteller", fr |-> "conteur", de |-> "geschichtenerzahler"]
         [] c = "summarizer" ->
              [es |-> "resumidor", pt |-> "sumarizador", en |-> "summarizer", fr |-> "resumeur", de |-> "zusammenfasser"]
         [] c = "code-assistant" ->
              [es |-> "asistente-codigo", pt |-> "assistente-codigo", en |-> "code-assistant", fr |-> "assistant-code", de |-> "code-assistent"]
         [] c = "no-code" ->
              [es |-> "sin-codigo", pt |-> "sem-codigo", en |-> "no-code", fr |-> "sans-code", de |-> "kein-code"]
         [] OTHER ->
              [es |-> "asistente-sql", pt |-> "assistente-sql", en |-> "sql-assistant", fr |-> "assistant-sql", de |-> "sql-assistent"]]

\* Lines 457-459: CATEGORY_TRANSLATIONS.get(cat, {}).get(lang); "" stands for None.
CatTrans(cat, lang) ==
    IF cat \in DOMAIN CATEGORY_TRANSLATIONS THEN CATEGORY_TRANSLATIONS[cat][lang] ELSE ""

\* Mutant of AppType: generator is tested before assistant.
AppTypeGeneratorFirst(kw) ==
    IF kw \cap {"generator", "create", "generate"} # {} THEN "generator"
    ELSE IF kw \cap {"assistant", "chatbot", "chat"} # {} THEN "assistant"
    ELSE IF kw \cap {"research", "search", "find"} # {} THEN "research"
    ELSE IF kw \cap {"write", "writing", "text"} # {} THEN "writing"
    ELSE IF kw \cap {"image", "photo", "picture"} # {} THEN "image"
    ELSE IF kw \cap {"video", "movie"} # {} THEN "video"
    ELSE IF kw \cap {"audio", "music", "sound"} # {} THEN "audio"
    ELSE IF kw \cap {"code", "programming", "development"} # {} THEN "code"
    ELSE "other"

\* _determine_app_type on the set of classifier keywords that occur in
\* f"{title} {description} {tags}".lower().
AppType(kw) ==
    IF kw \cap {"assistant", "chatbot", "chat"} # {} THEN "assistant"
    ELSE IF kw \cap {"generator", "create", "generate"} # {} THEN "generator"
    ELSE IF kw \cap {"research", "search", "find"} # {} THEN "research"
    ELSE IF kw \cap {"write", "writing", "text"} # {} THEN "writing"
    ELSE IF kw \cap {"image", "photo", "picture"} # {} THEN "image"
    ELSE IF kw \cap {"video", "movie"} # {} THEN "video"
    ELSE IF kw \cap {"audio", "music", "sound"} # {} THEN "audio"
    ELSE IF kw \cap {"code", "programming", "development"} # {} THEN "code"
    ELSE "other"

\* The classifier's keywords, by category (lines 610-624).
KeywordSet(cat) ==
    CASE cat = "assistant" -> {"assistant", "chatbot", "chat"}
      [] cat = "generator" -> {"generator", "create", "generate"}
      [] cat = "research" -> {"research", "search", "find"}
      [] cat = "writing" -> {"write", "writing", "text"}
      [] cat = "image" -> {"image", "photo", "picture"}
      [] cat = "video" -> {"video", "movie"}
      [] cat = "audio" -> {"audio", "music", "sound"}
      [] OTHER -> {"code", "programming", "development"}

AppTypes == {"assistant", "generator", "research", "writing", "image", "video", "audio", "code"}

\* Words a title, a description or a tag is made of.
Words ==
    {"Chatbot", "Generator", "research", "context", "photo", "movie", "music",
     "programming", "plain"}

\* str.lower() on a word.
Lower(w) ==
    CASE w = "Chatbot" -> "chatbot"
      [] w = "Generator" -> "generator"
      [] OTHER -> w

\* k in w, for a keyword k and a lower-cased word w: the test is on
\* substrings.
Occurs(k, w) ==
    \/ k = w
    \/ <<k, w>> \in {<<"chat", "chatbot">>, <<"search", "research">>, <<"text", "context">>}

\* Line 609 and the tests of lines 610-624: the keywords found in the text.
KeywordsIn(words) ==
    {k \in UNION {KeywordSet(c) : c \in AppTypes} : \E w \in words : Occurs(k, Lower(w))}

\* _determine_app_type on a text given as its words.
determine_app_type(words) == AppType(KeywordsIn(words))

\* A DetailExtraction: the title and description found and the classifier
\* keywords that occur in them and in the tags.
Detail(title, desc, kw) == [title |-> title, desc |-> desc, kw |-> kw]

NoDetail == Detail("", "", {})

Details ==
    {Detail(t, d, k) : t \in {"", "T"}, d \in {"", "D"},
                       k \in {{}, {"chat", "chatbot", "generator"}, {"video"}}}

\* What the network gives for one tool page.
\*   ff   "fail"   the POST or its decoding raised inside _fetchfox
\*        "empty"  the answer is a falsy JSON value ({}, [], null)
\*        "list"   the answer is a non-empty JSON value that is no object
\*        "dict"   the answer is an object: ffd
\*   get  "ok" | "fail": _get returned (html), or raised after its retries
\*   tr   for each target language, what the translation endpoint does
ToolEnv(ff, ffd, get, html, tr) ==
    [ff |-> ff, ffd |-> ffd, get |-> get, html |-> html, tr |-> tr]

Keys(fetchfox, openrouter) == [fetchfox |-> fetchfox, openrouter |-> openrouter]

\* json.loads(json.dumps(TOOL_TEMPLATE)), reduced to the fields the pipeline
\* reads back.
Template ==
    [slug |-> "", redirect_url |-> "",
     translations |-> [l \in AllLangs |-> [f \in Fields |-> ""]]]

\* What stands for a record file that does not exist (no record has an empty
\* slug: a slug is the last segment of a /tool/ URL).
NoFile == Template

\* What stands for a record file that a failed write cut short (lines 472-473:
\* open(path, "w") succeeded, json.dump did not finish): json.load raises on it.
Truncated == [Template EXCEPT !.slug = "<truncated>"]

\* retrying.retry(stop_max_attempt_number=CONN_RETRIES): the function is run
\* again only when an exception left it, at most CONN_RETRIES times in all.
RetryAttempts(raises) == IF raises THEN CONN_RETRIES ELSE 1

\* Lines 206-213: try ... except Exception: return None.
FetchfoxRaises(env) == FALSE

\* _fetchfox: lines 195-213.  No exception leaves the function, so the
\* retry decorator never runs it a second time.
Fetchfox(api_key, env) ==
    IF api_key = "" THEN [data |-> "none", posts |-> 0]
    ELSE IF env.ff = "fail" THEN [data |-> "none", posts |-> RetryAttempts(FetchfoxRaises(env))]
    ELSE [data |-> env.ff, posts |-> 1]

\* _scrape_detail_fetchfox: lines 354-365.
ScrapeDetailFetchfox(api_key, env) ==
    LET r == Fetchfox(api_key, env)
    IN IF r.data \in {"none", "empty"}
       THEN [raised |-> FALSE, none |-> TRUE, detail |-> NoDetail, posts |-> r.posts]
       ELSE IF r.data = "list"
       THEN [raised |-> TRUE, none |-> FALSE, detail |-> NoDetail, posts |-> r.posts]
       ELSE [raised |-> FALSE, none |-> FALSE, detail |-> env.ffd, posts |-> r.posts]

\* _scrape_detail_bs4: lines 367-402.
ScrapeDetailBs4(env) ==
    IF env.get = "fail"
    THEN [raised |-> TRUE, detail |-> NoDetail]
    ELSE [raised |-> FALSE, detail |-> env.html]

\* translated["category"] = cat_trans: only a dict takes it.
SetCategory(j, cat_trans) ==
    IF j.type = "dict"
    THEN [raised |-> FALSE, j |-> JDict(Merge(j.d, [k \in {"category"} |-> cat_trans]))]
    ELSE [raised |-> TRUE, j |-> j]

RECURSIVE PairsToDict(_)
PairsToDict(items) ==
    IF items = <<>> THEN [k \in {} |-> ""]
    ELSE Merge([k \in {Head(items)[1]} |-> Head(items)[2]], PairsToDict(Tail(items)))

\* dict.update(x): a dict is laid over; a list must hold pairs; a string must
\* be empty (its items are single characters); anything else is not iterable.
DictUpdate(base, j) ==
    CASE j.type = "dict" -> [raised |-> FALSE, d |-> Merge(base, j.d)]
      [] j.type = "list" ->
           IF \A i \in 1..Len(j.l) : Len(j.l[i]) = 2
           THEN [raised |-> FALSE, d |-> Merge(base, PairsToDict(j.l))]
           ELSE [raised |-> TRUE, d |-> base]
      [] j.type = "str" -> [raised |-> j.s # "", d |-> base]
      [] OTHER -> [raised |-> TRUE, d |-> base]

\* Mutant of OverrideCategory: the dictionary is never applied.
OverrideCategoryNever(cat_trans) == FALSE

\* Line 462: if cat_trans.
OverrideCategory(cat_trans) == cat_trans # ""

\* One iteration of the loop of lines 455-464.
EnrichLang(data, pack, lang, api_key, resp) ==
    LET cat_trans == CatTrans(pack["category"], lang)
        t == translate_dict(api_key, pack, lang, resp)
        o == IF OverrideCategory(cat_trans)
             THEN SetCategory(t.ret, cat_trans)
             ELSE [raised |-> FALSE, j |-> t.ret]
        u == DictUpdate(data.translations[lang], o.j)
    IN IF o.raised \/ u.raised
       THEN [raised |-> TRUE, data |-> data, posts |-> t.posts, ret |-> t.ret]
       ELSE [raised |-> FALSE,
             data |-> [data EXCEPT !.translations[lang] = u.d],
             posts |-> t.posts, ret |-> t.ret]

\* Line 455: for lang in ["es", "pt", "fr", "de"].
LangOrder == <<"es", "pt", "fr", "de">>

RECURSIVE EnrichLoop(_, _, _, _, _)
\* The loop from its i-th language on; calls lists the requests made.
EnrichLoop(data, pack, i, api_key, tr) ==
    IF i > Len(LangOrder) THEN [raised |-> FALSE, data |-> data, calls |-> <<>>]
    ELSE LET lang == LangOrder[i]
             r == EnrichLang(data, pack, lang, api_key, tr[lang])
             c == IF r.posts = 1 THEN <<"translate">> ELSE <<>>
         IN IF r.raised THEN [raised |-> TRUE, data |-> data, calls |-> c]
            ELSE LET rest == EnrichLoop(r.data, pack, i + 1, api_key, tr)
                 IN [raised |-> rest.raised, data |-> rest.data, calls |-> c \o rest.calls]

\* Mutant of RecordExists: the resume check is gone.
RecordExistsNever(stored) == FALSE

\* Lines 409-410: os.path.exists(existing_path).
RecordExists(stored) == stored # NoFile

\* Lines 411-412: json.load(f) returns the record.
Readable(stored) == stored # Truncated

\* Mutant of NeedsHtmlFallback: a structured result without a title goes to
\* the HTML fallback too.
NeedsHtmlFallbackOnEmptyTitle(ffres) == ffres.none \/ ffres.detail.title = ""

\* Line 414: a falsy structured result sends the call to the HTML fallback.
NeedsHtmlFallback(ffres) == ffres.none

\* Lines 416-453: the record with its en entry, and the pack to translate.
BuildEn(tool_info, category, detail) ==
    LET title == IF detail.title # "" THEN detail.title ELSE tool_info.name
        desc == detail.desc
        en == [f \in Fields |->
                 CASE f = "title" -> title
                   [] f = "shortDescription" -> desc \o "..."
                   [] f = "longDescription" -> desc
                   [] f = "tags" -> ""
                   [] f = "pricingInfo" -> "Information not available"
                   [] f = "category" -> category
                   [] OTHER -> AppType(detail.kw)]
    IN [Template EXCEPT !.slug = tool_info.slug, !.translations["en"] = en]

\* scrape_tool_details.  resumed: the stored record was returned; raised: an
\* exception left the function; data: the value returned; calls: the network
\* requests made, in order ("fetchfox", "get", "translate").
scrape_tool_details(tool_info, category, stored, keys, env) ==
    IF RecordExists(stored)
    THEN IF Readable(stored)
         THEN [resumed |-> TRUE, raised |-> FALSE, data |-> stored, calls |-> <<>>]
         ELSE [resumed |-> FALSE, raised |-> TRUE, data |-> NoFile, calls |-> <<>>]
    ELSE
      LET ff == ScrapeDetailFetchfox(keys.fetchfox, env)
          c1 == [i \in 1..ff.posts |-> "fetchfox"]
      IN IF ff.raised
         THEN [resumed |-> FALSE, raised |-> TRUE, data |-> NoFile, calls |-> c1]
         ELSE
           LET bs == IF NeedsHtmlFallback(ff) THEN ScrapeDetailBs4(env)
                     ELSE [raised |-> FALSE, detail |-> ff.detail]
               c2 == IF NeedsHtmlFallback(ff) THEN c1 \o <<"get">> ELSE c1
           IN IF bs.raised
              THEN [resumed |-> FALSE, raised |-> TRUE, data |-> NoFile, calls |-> c2]
              ELSE
                LET data == BuildEn(tool_info, category, bs.detail)
                    pack == data.translations["en"]
                    lp == EnrichLoop(data, pack, 1, keys.openrouter, env.tr)
                IN [resumed |-> FALSE, raised |-> lp.raised,
                    data |-> IF lp.raised THEN NoFile ELSE lp.data,
                    calls |-> c2 \o lp.calls]

\* ------------------------------------------------------ inputs of the runs

\* Field maps handed to translate_dict in SpecTranslate.
PayloadKeys == {"title", "category", "tags"}

PayloadVals == {"x", "y"}

Payloads == UNION {[K -> PayloadVals] : K \in SUBSET PayloadKeys}

ApiKeys == {"", "sk"}

TranslateInputs ==
    [api_key : ApiKeys, payload : Payloads, lang : Langs, resp : TrResponses]

\* What _list_page_tools is applied to in SpecListPage.
ListPageInputs == [api_key : ApiKeys, env : PageEnvs]

\* Translation answers used when a whole record is enriched.
EnrichTrResponses ==
    TrFailures
    \cup {TrResp("content", <<"body">>, sh) : sh \in Shapes}
    \cup {TrResp("content", <<"prose", "ws", "body">>, "same")}

TrSame == TrResp("content", <<"body">>, "same")

TrHttp == TrResp("http", <<>>, "null")

\* One language answers anything, the others all translate or all fail.
TrEnvs ==
    {[l \in Langs |-> IF l = dev THEN r ELSE base] :
        dev \in Langs, r \in EnrichTrResponses, base \in {TrSame, TrHttp}}

EnrichDetails == {Detail(t, "D", k) : t \in {"", "T"}, k \in {{}, {"chat", "chatbot", "generator"}, {"video"}}}

DetailEnvs ==
    {[ff |-> f, ffd |-> NoDetail, get |-> "fail", html |-> NoDetail] : f \in {"fail", "empty", "list"}}
    \cup {[ff |-> f, ffd |-> NoDetail, get |-> "ok", html |-> h] : f \in {"fail", "empty", "list"}, h \in EnrichDetails}
    \cup {[ff |-> "dict", ffd |-> d, get |-> "ok", html |-> NoDetail] : d \in EnrichDetails}
    \cup {[ff |-> "dict", ffd |-> NoDetail, get |-> "ok", html |-> Detail("H", "HD", {"video"})]}

EnrichEnvs == {ToolEnv(d.ff, d.ffd, d.get, d.html, tr) : d \in DetailEnvs, tr \in TrEnvs}

Categories == {"code-assistant", "video-editing"}

KeySets == {Keys(f, o) : f \in ApiKeys, o \in ApiKeys}

AllSame == [l \in Langs |-> TrSame]

\* A record an earlier run left in the store for the tool.
StoredRecord(tool_info, category) ==
    scrape_tool_details(tool_info, category, NoFile, Keys("sk", "sk"),
        ToolEnv("dict", Detail("T", "D", {"video"}), "ok", NoDetail, AllSame)).data

EnrichInputs ==
    {[tool |-> ToolInfo("a", "n1"), category |-> c, stored |-> st, keys |-> k, env |-> e] :
        c \in Categories,
        st \in {NoFile, Truncated, StoredRecord(ToolInfo("a", "n1"), "code-assistant")},
        k \in KeySets, e \in EnrichEnvs}

\* Listing pages of the category runs: parsed from HTML, at most one card.
RunCardLists == {<<>>} \cup {<<Card(x, "n1")>> : x \in Slugs}

RunPageEnvs ==
    {PageEnv("none", <<>>, "fail", <<>>, FALSE)}
    \cup {PageEnv("none", <<>>, "ok", h, n) : h \in RunCardLists, n \in BOOLEAN}

\* Listing pages of a batch: one card and a next-page signal or none, or a
\* GET that fails.
BatchPageEnvs ==
    {PageEnv("none", <<>>, "fail", <<>>, FALSE)}
    \cup {PageEnv("none", <<>>, "ok", <<Card(x, "n1")>>, n) : x \in Slugs, n \in BOOLEAN}

RunCategory == "code-assistant"

\* load_categories: the category URLs of the CSV file, in file order.
categories == <<"code-assistant", "video-editing">>

RunKeys == Keys("sk", "sk")

\* What the network gives a task of a category run: a structured detail, the
\* HTML fallback finding the same, a fallback whose GET fails, a translation
\* answering a list.
TaskEnvs ==
    { ToolEnv("dict", Detail("T", "D", {"video"}), "ok", NoDetail, AllSame),
      ToolEnv("fail", NoDetail, "ok", Detail("T", "D", {"video"}), AllSame),
      ToolEnv("fail", NoDetail, "fail", NoDetail, AllSame),
      ToolEnv("dict", Detail("T", "D", {"video"}), "ok", NoDetail,
              [l \in Langs |-> TrResp("content", <<"body">>, "list")]) }

\* What the network gives a task of a batch: a detail, or a failing fallback.
BatchTaskEnvs ==
    { ToolEnv("dict", Detail("T", "D", {"video"}), "ok", NoDetail, AllSame),
      ToolEnv("fail", NoDetail, "fail", NoDetail, AllSame) }

\* --------------------------------------------------------------- variables

VARIABLES
    lpc,        \* get_all_tools_from_category: "idle" | "listing" | "done" | "raised"
    page,       \* its local page
    all_tools,  \* its local all_tools
    fetched,    \* history: one entry per _list_page_tools call of this listing
    tpc,        \* translate_dict: "idle" | "call" | "returned"
    t_in,       \* its arguments and what the endpoint will answer
    t_out,      \* what it returned
    epc,        \* scrape_tool_details: "idle" | "call" | "returned" | "raised"
    e_in,       \* its arguments, the stored record and what the network will answer
    e_out,      \* what it returned
    pc,         \* scrape_category: "idle" | "listing" | "pool" | "returned" | "raised"
    store,      \* Config.TOOLS_DIR: slug -> the record in <slug>.json, or NoFile
    seen,       \* self._seen
    seen0,      \* history: self._seen when the run began
    to_process, \* its local to_process
    tstat,      \* per submitted task: "queued" | "running" | "done" (future completed),
                \* "saving" (its record file is open for writing), then collected
                \* as "saved" | "unsaved" | "failed"
    tres,       \* per task: what scrape_tool_details returned or raised
    results,    \* its local results
    csv,        \* the rows (slugs) this run wrote to the category CSV file
    csv_saved,  \* history: this run's _save_category_csv: "none" | "ok" | "failed"
    ret,        \* what the run returned: "none" | "true" | "false"
    writes,     \* history: per slug, how many times its record file was written
    fpc,        \* a function applied on its own: "idle" | "call" | "returned" | "raised"
    f_in,       \* its arguments
    f_out,      \* what it returned
    idx,        \* scrape_all_categories: the loop's idx, 0 outside a batch
    oks         \* scrape_all_categories: the ok of each category that returned

listVars == <<lpc, page, all_tools, fetched>>

trVars == <<tpc, t_in, t_out>>

enVars == <<epc, e_in, e_out>>

runVars ==
    <<pc, store, seen, seen0, to_process, tstat, tres, results, csv, csv_saved, ret, writes>>

fnVars == <<fpc, f_in, f_out>>

batchVars == <<idx, oks>>

vars ==
    <<lpc, page, all_tools, fetched, tpc, t_in, t_out, epc, e_in, e_out,
      pc, store, seen, seen0, to_process, tstat, tres, results, csv, csv_saved, ret, writes,
      fpc, f_in, f_out, idx, oks>>

NoTrIn == [api_key |-> "", payload |-> [k \in {} |-> ""], lang |-> "es", resp |-> TrHttp]

NoTrOut == [ret |-> JNull, posts |-> 0, warned |-> FALSE]

NoEnIn ==
    [tool |-> ToolInfo("", ""), category |-> "", stored |-> NoFile, keys |-> Keys("", ""),
     env |-> ToolEnv("fail", NoDetail, "fail", NoDetail, [l \in Langs |-> TrHttp])]

NoEnOut == [resumed |-> FALSE, raised |-> FALSE, data |-> NoFile, calls |-> <<>>]

ListIdle == lpc = "idle" /\ page = 1 /\ all_tools = <<>> /\ fetched = <<>>

TrIdle == tpc = "idle" /\ t_in = NoTrIn /\ t_out = NoTrOut

EnIdle == epc = "idle" /\ e_in = NoEnIn /\ e_out = NoEnOut

FnIdle == fpc = "idle" /\ f_in = <<>> /\ f_out = <<>>

BatchIdle == idx = 0 /\ oks = <<>>

RunIdle ==
    /\ pc = "idle"
    /\ store = [s \in Slugs |-> NoFile]
    /\ seen = {}
    /\ seen0 = {}
    /\ to_process = <<>>
    /\ tstat = <<>>
    /\ tres = <<>>
    /\ results = <<>>
    /\ csv = <<>>
    /\ csv_saved = "none"
    /\ ret = "none"
    /\ writes = [s \in Slugs |-> 0]

\* ---------------------------------------------------------- the paginator

\* Mutant of PageCapOk: the loop test is off by one.
PageCapOffByOne(p) == p <= MAX_PAGES_PER_CATEGORY + 1

\* Line 317: the loop test.
PageCapOk(p) == p <= MAX_PAGES_PER_CATEGORY

\* Mutant of StopOnEmpty: an empty first page stops the listing too.
StopOnAnyEmpty(tools, p) == tools = <<>>

\* Line 319: if not tools and page > 1: break.
StopOnEmpty(tools, p) == tools = <<>> /\ p > 1

\* Line 322: if not has_next: break.
StopOnNoNext(has_next) == ~has_next

ListBegin ==
    /\ page' = 1
    /\ all_tools' = <<>>
    /\ fetched' = <<>>
    /\ lpc' = IF PageCapOk(1) THEN "listing" ELSE "done"

\* One iteration of the while loop, the loop test that follows it included.
ListStep(envs) ==
    /\ lpc = "listing"
    /\ \E env \in envs :
         LET r == ListPageTools(env)
         IN /\ fetched' = Append(fetched, [page |-> page, tools |-> r.tools,
                                           has_next |-> r.has_next, raised |-> r.raised])
            /\ IF r.raised
               THEN lpc' = "raised" /\ UNCHANGED <<page, all_tools>>
               ELSE IF StopOnEmpty(r.tools, page)
               THEN lpc' = "done" /\ UNCHANGED <<page, all_tools>>
               ELSE /\ all_tools' = all_tools \o r.tools
                    /\ IF StopOnNoNext(r.has_next)
                       THEN lpc' = "done" /\ page' = page
                       ELSE /\ page' = page + 1
                            /\ lpc' = IF PageCapOk(page + 1) THEN "listing" ELSE "done"

InitPaginate ==
    /\ lpc = "listing"
    /\ page = 1
    /\ all_tools = <<>>
    /\ fetched = <<>>
    /\ TrIdle
    /\ EnIdle
    /\ RunIdle
    /\ FnIdle
    /\ BatchIdle

PaginateStep == ListStep(PageEnvs) /\ UNCHANGED <<trVars, enVars, fnVars, runVars, batchVars>>

NextPaginate == PaginateStep

SpecPaginate == InitPaginate /\ [][NextPaginate]_vars /\ WF_vars(NextPaginate)

\* ------------------------------------------------ translate_dict, applied

InitTranslate ==
    /\ tpc = "call"
    /\ t_in \in TranslateInputs
    /\ t_out = NoTrOut
    /\ ListIdle
    /\ EnIdle
    /\ RunIdle
    /\ FnIdle
    /\ BatchIdle

TranslateCall ==
    /\ tpc = "call"
    /\ t_out' = translate_dict(t_in.api_key, t_in.payload, t_in.lang, t_in.resp)
    /\ tpc' = "returned"
    /\ UNCHANGED <<t_in, listVars, enVars, runVars, fnVars, batchVars>>

NextTranslate == TranslateCall

SpecTranslate == InitTranslate /\ [][NextTranslate]_vars

\* ------------------------------------------- scrape_tool_details, applied

InitEnrich ==
    /\ epc = "call"
    /\ e_in \in EnrichInputs
    /\ e_out = NoEnOut
    /\ ListIdle
    /\ TrIdle
    /\ RunIdle
    /\ FnIdle
    /\ BatchIdle

EnrichCall ==
    /\ epc = "call"
    /\ LET r == scrape_tool_details(e_in.tool, e_in.category, e_in.stored, e_in.keys, e_in.env)
       IN /\ e_out' = r
          /\ epc' = IF r.raised THEN "raised" ELSE "returned"
    /\ UNCHANGED <<e_in, listVars, trVars, runVars, fnVars, batchVars>>

NextEnrich == EnrichCall

SpecEnrich == InitEnrich /\ [][NextEnrich]_vars

\* --------------------------------------------- _list_page_tools, applied

InitListPage ==
    /\ fpc = "call"
    /\ f_in \in ListPageInputs
    /\ f_out = <<>>
    /\ ListIdle
    /\ TrIdle
    /\ EnIdle
    /\ RunIdle
    /\ BatchIdle

ListPageCall ==
    /\ fpc = "call"
    /\ LET r == list_page_tools(f_in.api_key, f_in.env)
       IN /\ f_out' = r
          /\ fpc' = IF r.raised THEN "raised" ELSE "returned"
    /\ UNCHANGED <<f_in, listVars, trVars, enVars, runVars, batchVars>>

NextListPage == ListPageCall

SpecListPage == InitListPage /\ [][NextListPage]_vars

\* ------------------------------------------ _determine_app_type, applied

InitClassify ==
    /\ fpc = "call"
    /\ f_in \in SUBSET Words
    /\ f_out = <<>>
    /\ ListIdle
    /\ TrIdle
    /\ EnIdle
    /\ RunIdle
    /\ BatchIdle

ClassifyCall ==
    /\ fpc = "call"
    /\ f_out' = determine_app_type(f_in)
    /\ fpc' = "returned"
    /\ UNCHANGED <<f_in, listVars, trVars, enVars, runVars, batchVars>>

NextClassify == ClassifyCall

SpecClassify == InitClassify /\ [][NextClassify]_vars

\* --------------------------------------------------------- scrape_category

\* Line 184: the slugs of the .json files of TOOLS_DIR.
ListDir(st) == {s \in Slugs : st[s] # NoFile}

\* Line 545: [ti for ti in tools_info if ti.slug not in self._seen].
ToProcess(tools_info, sn) == SelectSeq(tools_info, LAMBDA ti : ti.slug \notin sn)

\* Lines 551-555 and 574-578: the records of the listed tools whose file exists.
RECURSIVE ReadListed(_, _)
ReadListed(tools_info, st) ==
    IF tools_info = <<>> THEN <<>>
    ELSE (IF st[Head(tools_info).slug] # NoFile THEN <<st[Head(tools_info).slug]>> ELSE <<>>)
         \o ReadListed(Tail(tools_info), st)

\* Lines 555 and 578: json.load raises on a file that was cut short.
ReadRaises(tools_info, st) ==
    \E i \in 1..Len(tools_info) : ~Readable(st[tools_info[i].slug])

\* Lines 548-578: the rows handed to _save_category_csv.
CsvInput(res, tools_info, st) == res \o ReadListed(tools_info, st)

\* _save_category_csv: one row per element of rows; a row is kept as its slug.
\* io_ok: whether the file could be written.
SaveCategoryCsv(rows, old, io_ok) ==
    IF io_ok THEN [i \in 1..Len(rows) |-> rows[i].slug] ELSE old

\* What the file system does to a write of a record file: it goes through,
\* open fails (the file is as before), or the write fails after open
\* truncated the file.
IoOutcomes == {"ok", "open_failed", "write_failed"}

\* Lines 472-473 opened the file for writing.
Opened(io) == io # "open_failed"

\* _save_tool_json: the file is written, then the slug is marked seen; an
\* exception is logged and gives False.
SaveToolJson(st, sn, tool_data, io) ==
    CASE io = "ok" ->
           [ok |-> TRUE, store |-> [st EXCEPT ![tool_data.slug] = tool_data],
            seen |-> sn \cup {tool_data.slug}]
      [] io = "open_failed" -> [ok |-> FALSE, store |-> st, seen |-> sn]
      [] OTHER ->
           [ok |-> FALSE, store |-> [st EXCEPT ![tool_data.slug] = Truncated], seen |-> sn]

\* Line 567: if data and data.get("slug").
Saveable(r) == r.data.slug # ""

\* Line 541: if not tools_info: return False.
NothingListed(tools_info) == tools_info = <<>>

\* The tasks a worker may start: the pool takes them in submission order and
\* runs at most max_workers at a time.
Running == {i \in DOMAIN tstat : tstat[i] = "running"}

NextQueued(i) ==
    /\ i \in DOMAIN tstat
    /\ tstat[i] = "queued"
    /\ \A j \in 1..(i - 1) : tstat[j] # "queued"

\* Mutant of WorkerFree: every submitted task gets a thread at once.
WorkerFreeAlways == TRUE

WorkerFree == Cardinality(Running) < max_workers

Collected(i) == tstat[i] \in {"saved", "unsaved", "failed"}

\* Mutant of AllCollected: the loop is left after the first future.
AnyCollected == \E i \in DOMAIN tstat : Collected(i)

\* The as_completed loop has yielded every future and the with block has shut
\* the pool down (shutdown waits for the workers).
AllCollected == \A i \in DOMAIN tstat : Collected(i)

\* Mutant of BodyBusy: a record is saved by whoever completes, at any time.
BodyBusyNever == FALSE

\* Mutant of BodyBusy: the loop starts once every task has finished.
BodyBusyUntilAllDone ==
    \E j \in DOMAIN tstat : tstat[j] \in {"queued", "running", "saving"}

\* The loop body runs in the calling thread, for one future at a time.
BodyBusy == \E j \in DOMAIN tstat : tstat[j] = "saving"

\* The category whose tools are being enriched (ToolInfo.category).
CurrentCategory == IF idx = 0 THEN RunCategory ELSE categories[idx]

\* scrape_single_category: a new FuturepediaScraper (its _seen read from the
\* record directory), then scrape_category up to the call of the paginator.
BeginRun ==
    /\ pc' = "listing"
    /\ seen' = ListDir(store)
    /\ seen0' = ListDir(store)
    /\ ListBegin
    /\ to_process' = <<>>
    /\ tstat' = <<>>
    /\ tres' = <<>>
    /\ results' = <<>>
    /\ csv_saved' = "none"
    /\ ret' = "none"
    /\ csv' = <<>>
    /\ UNCHANGED <<store, writes, trVars, enVars, fnVars>>

\* The program is run for one category (main with --category): any number of
\* times, each run finding the record directory as the last one left it.
StartRun ==
    /\ pc \in {"idle", "returned", "raised"}
    /\ BeginRun
    /\ UNCHANGED batchVars

\* Line 540, one page at a time.
RunListStep ==
    /\ pc = "listing"
    /\ ListStep(RunPageEnvs)
    /\ UNCHANGED <<trVars, enVars, fnVars, runVars, batchVars>>

\* Line 540 raises: the exception leaves scrape_category.
ListingRaised ==
    /\ pc = "listing"
    /\ lpc = "raised"
    /\ pc' = "raised"
    /\ UNCHANGED <<listVars, trVars, enVars, fnVars, batchVars, store, seen, seen0, to_process, tstat, tres,
                   results, csv, csv_saved, ret, writes>>

\* Lines 540-558: the paginator has returned (its locals are gone, all_tools
\* is tools_info from here on): the early return, the run with nothing to
\* process, or the way to the pool.
AfterListing ==
    /\ pc = "listing"
    /\ lpc = "done"
    /\ UNCHANGED <<all_tools, trVars, enVars, fnVars, batchVars, store, seen, seen0, tstat, tres, writes>>
    /\ lpc' = "idle"
    /\ page' = 1
    /\ fetched' = <<>>
    /\ IF NothingListed(all_tools)
       THEN /\ ret' = "false"
            /\ pc' = "returned"
            /\ UNCHANGED <<to_process, results, csv, csv_saved>>
       ELSE LET tp == ToProcess(all_tools, seen)
            IN IF tp = <<>>
               THEN IF ReadRaises(all_tools, store)
                    THEN /\ pc' = "raised"
                         /\ UNCHANGED <<to_process, results, csv, csv_saved, ret>>
                    ELSE \E io_ok \in BOOLEAN :
                           /\ results' = CsvInput(<<>>, all_tools, store)
                           /\ csv' = SaveCategoryCsv(results', csv, io_ok)
                           /\ csv_saved' = IF io_ok THEN "ok" ELSE "failed"
                           /\ ret' = "true"
                           /\ pc' = "returned"
                           /\ UNCHANGED to_process
               ELSE /\ to_process' = tp
                    /\ pc' = "pool"
                    /\ UNCHANGED <<results, csv, csv_saved, ret>>

SubmitAll ==
    /\ pc = "pool"
    /\ tstat = <<>>
    /\ tstat' = [i \in 1..Len(to_process) |-> "queued"]
    /\ tres' = [i \in 1..Len(to_process) |-> NoEnOut]
    /\ UNCHANGED <<listVars, trVars, enVars, fnVars, batchVars, pc, store, seen, seen0, to_process, results,
                   csv, csv_saved, ret, writes>>

\* A worker takes the next task and runs scrape_tool_details up to its
\* resume check: an existing record is read and returned at once.
TaskStart(i) ==
    /\ pc = "pool"
    /\ NextQueued(i)
    /\ WorkerFree
    /\ LET stored == store[to_process[i].slug]
       IN IF RecordExists(stored)
          THEN /\ tstat' = [tstat EXCEPT ![i] = "done"]
               /\ tres' = [tres EXCEPT ![i] =
                             scrape_tool_details(to_process[i], CurrentCategory, stored,
                                                 RunKeys, CHOOSE e \in TaskEnvs : TRUE)]
          ELSE /\ tstat' = [tstat EXCEPT ![i] = "running"]
               /\ UNCHANGED tres
    /\ UNCHANGED <<listVars, trVars, enVars, fnVars, batchVars, pc, store, seen, seen0, to_process, results,
                   csv, csv_saved, ret, writes>>

\* The rest of scrape_tool_details, with what the network answers.
TaskRun(i, envs) ==
    /\ pc = "pool"
    /\ i \in DOMAIN tstat
    /\ tstat[i] = "running"
    /\ \E env \in envs :
         tres' = [tres EXCEPT ![i] =
                    scrape_tool_details(to_process[i], CurrentCategory, NoFile, RunKeys, env)]
    /\ tstat' = [tstat EXCEPT ![i] = "done"]
    /\ UNCHANGED <<listVars, trVars, enVars, fnVars, batchVars, pc, store, seen, seen0, to_process, results,
                   csv, csv_saved, ret, writes>>

TaskFinish(i) == TaskRun(i, TaskEnvs)

\* Lines 563-568 and 471-472: one iteration of the as_completed loop, up to
\* the open of the record file (which empties the file).
Collect(i) ==
    /\ pc = "pool"
    /\ i \in DOMAIN tstat
    /\ tstat[i] = "done"
    /\ ~BodyBusy
    /\ IF tres[i].raised
       THEN /\ tstat' = [tstat EXCEPT ![i] = "failed"]
            /\ tres' = [tres EXCEPT ![i] = NoEnOut]
            /\ UNCHANGED <<store, writes>>
       ELSE IF ~Saveable(tres[i])
       THEN /\ tstat' = [tstat EXCEPT ![i] = "unsaved"]
            /\ tres' = [tres EXCEPT ![i] = NoEnOut]
            /\ UNCHANGED <<store, writes>>
       ELSE \E io \in IoOutcomes :
              IF Opened(io)
              THEN /\ store' = SaveToolJson(store, seen, tres[i].data, "write_failed").store
                   /\ writes' = [writes EXCEPT ![tres[i].data.slug] = @ + 1]
                   /\ tstat' = [tstat EXCEPT ![i] = "saving"]
                   /\ UNCHANGED tres
              ELSE /\ store' = SaveToolJson(store, seen, tres[i].data, io).store
                   /\ tstat' = [tstat EXCEPT ![i] = "unsaved"]
                   /\ tres' = [tres EXCEPT ![i] = NoEnOut]
                   /\ UNCHANGED writes
    /\ UNCHANGED <<listVars, trVars, enVars, fnVars, batchVars, pc, seen, seen0, to_process,
                   results, csv, csv_saved, ret>>

\* Lines 473-479 and 569: json.dump goes through (the slug is marked seen and
\* the record appended to results) or raises (the file stays cut short).
CollectEnd(i) ==
    /\ pc = "pool"
    /\ i \in DOMAIN tstat
    /\ tstat[i] = "saving"
    /\ \E io \in {o \in IoOutcomes : Opened(o)} :
         LET sv == SaveToolJson(store, seen, tres[i].data, io)
         IN /\ store' = sv.store
            /\ seen' = sv.seen
            /\ results' = IF sv.ok THEN Append(results, tres[i].data) ELSE results
            /\ tstat' = [tstat EXCEPT ![i] = IF sv.ok THEN "saved" ELSE "unsaved"]
    /\ tres' = [tres EXCEPT ![i] = NoEnOut]
    /\ UNCHANGED <<listVars, trVars, enVars, fnVars, batchVars, pc, seen0, to_process, csv,
                   csv_saved, ret, writes>>

\* Lines 573-583, once the pool has shut down: the records of the listed
\* tools are read back (an unreadable one makes json.load raise, and the
\* exception leaves scrape_category), then the CSV is written.
FinishRun ==
    /\ pc = "pool"
    /\ tstat # <<>>
    /\ AllCollected
    /\ IF ReadRaises(all_tools, store)
       THEN /\ pc' = "raised"
            /\ UNCHANGED <<results, csv, csv_saved, ret>>
       ELSE \E io_ok \in BOOLEAN :
              /\ results' = CsvInput(results, all_tools, store)
              /\ csv' = SaveCategoryCsv(results', csv, io_ok)
              /\ csv_saved' = IF io_ok THEN "ok" ELSE "failed"
              /\ ret' = "true"
              /\ pc' = "returned"
    /\ UNCHANGED <<listVars, trVars, enVars, fnVars, batchVars, store, seen, seen0, to_process, tstat, tres, writes>>

Init ==
    /\ ListIdle
    /\ TrIdle
    /\ EnIdle
    /\ RunIdle
    /\ FnIdle
    /\ BatchIdle

Next ==
    \/ StartRun
    \/ RunListStep
    \/ ListingRaised
    \/ AfterListing
    \/ SubmitAll
    \/ \E i \in 1..MAX_PAGES_PER_CATEGORY : TaskStart(i)
    \/ \E i \in 1..MAX_PAGES_PER_CATEGORY : TaskFinish(i)
    \/ \E i \in 1..MAX_PAGES_PER_CATEGORY : Collect(i)
    \/ \E i \in 1..MAX_PAGES_PER_CATEGORY : CollectEnd(i)
    \/ FinishRun

Spec == Init /\ [][Next]_vars

\* ---------------------------------------------------- scrape_all_categories

\* Mutant of EachReturned: a category is begun without waiting for the last.
EachBegunOrReturned == TRUE

\* Line 129 has run for every category begun: each call has returned.
EachReturned == Len(oks) = idx

\* Lines 126-128: the next iteration of the loop calls scrape_single_category.
BatchNext ==
    /\ idx < Len(categories)
    /\ EachReturned
    /\ idx' = idx + 1
    /\ BeginRun
    /\ UNCHANGED oks

\* Lines 59-63 and 129: scrape_single_category returns ok, which is appended.
BatchAppend ==
    /\ idx >= 1
    /\ Len(oks) < idx
    /\ pc = "returned"
    /\ oks' = Append(oks, ret = "true")
    /\ UNCHANGED <<idx, listVars, trVars, enVars, fnVars, runVars>>

\* Line 540 within a batch, one page at a time.
BatchListStep ==
    /\ pc = "listing"
    /\ ListStep(BatchPageEnvs)
    /\ UNCHANGED <<trVars, enVars, fnVars, runVars, batchVars>>

BatchTaskFinish(i) == TaskRun(i, BatchTaskEnvs)

NextBatch ==
    \/ BatchNext
    \/ BatchAppend
    \/ BatchListStep
    \/ ListingRaised
    \/ AfterListing
    \/ SubmitAll
    \/ \E i \in 1..MAX_PAGES_PER_CATEGORY : TaskStart(i)
    \/ \E i \in 1..MAX_PAGES_PER_CATEGORY : BatchTaskFinish(i)
    \/ \E i \in 1..MAX_PAGES_PER_CATEGORY : Collect(i)
    \/ \E i \in 1..MAX_PAGES_PER_CATEGORY : CollectEnd(i)
    \/ FinishRun

SpecBatch == Init /\ [][NextBatch]_vars

\* Every thread is scheduled again and again, and every network call and
\* file operation returns or fails.
SpecBatchFair == Init /\ [][NextBatch]_vars /\ WF_vars(NextBatch)

\* ------------------------------------------------------------------ claims

TaskSlug(i) == to_process[i].slug

Failed(i) == tstat[i] = "failed"

\* The slug has a record file that holds a whole record.
Persisted(st, s) == st[s] # NoFile /\ st[s] # Truncated

\* C1 (as claimed): across the runs, once the record file of a slug has been
\* written no later step writes it again, so no record file is ever opened
\* for writing twice, also when a listing carries the slug on more than one
\* page.
C1_WriteOnce == \A s \in Slugs : writes[s] <= 1

\* C2: for a tool whose slug has a persisted record (a file holding a whole
\* record), scrape_tool_details returns exactly that record and makes no
\* network call (no structured extraction POST, no HTML GET, no translation
\* request), whatever the network would have answered.
C2_IdempotentResume ==
    (epc # "call" /\ e_in.stored # NoFile /\ e_in.stored # Truncated) =>
        /\ epc = "returned"
        /\ e_out.data = e_in.stored
        /\ e_out.calls = <<>>

C2_Witness ==
    /\ epc = "returned"
    /\ e_in.stored # NoFile
    /\ e_in.stored # Truncated
    /\ e_in.keys = Keys("sk", "sk")
    /\ e_in.env.ff = "dict"
    /\ e_out.data = e_in.stored

\* C3 (as claimed): after a run that returned true and wrote its CSV, the CSV
\* holds exactly one row for each tool enriched and saved by this run and one
\* for each listed tool whose record existed before, and no slug twice.
C3_CsvRowsExact ==
    (pc = "returned" /\ ret = "true" /\ csv_saved = "ok") =>
        /\ \A i, j \in 1..Len(csv) : csv[i] = csv[j] => i = j
        /\ Range(csv) = {TaskSlug(i) : i \in {k \in DOMAIN tstat : tstat[k] = "saved"}}
                        \cup {all_tools[i].slug : i \in {k \in 1..Len(all_tools) :
                                                          all_tools[k].slug \in seen0}}

\* C4 (as claimed): when a task raises, every sibling still runs to completion,
\* each sibling that succeeds is persisted, the failing tool gets no record,
\* the run returns true, and N tasks with one raising give N-1 new records.
C4_IsolationAsClaimed ==
    (\E i \in DOMAIN tstat : Failed(i)) =>
        /\ pc \in {"pool", "returned"}
        /\ pc = "returned" =>
             /\ ret = "true"
             /\ \A i \in DOMAIN tstat : Collected(i)
             /\ \A i \in DOMAIN tstat : ~Failed(i) => Persisted(store, TaskSlug(i))
             /\ \A i \in DOMAIN tstat : Failed(i) => ~Persisted(store, TaskSlug(i))
             /\ Cardinality({i \in DOMAIN tstat : Failed(i)}) = 1 =>
                  Cardinality({x \in Slugs \ seen0 : Persisted(store, x)})
                     = Len(to_process) - 1

\* C5: the listing ends, and it never asks for more listing pages than the
\* page cap, also when every page has cards and signals a next page.
C5_PaginationBounded ==
    /\ [](Len(fetched) <= MAX_PAGES_PER_CATEGORY)
    /\ [](\A i \in 1..Len(fetched) : fetched[i].page <= MAX_PAGES_PER_CATEGORY)
    /\ <>(lpc # "listing")

C5_Witness ==
    /\ lpc = "done"
    /\ Len(fetched) = MAX_PAGES_PER_CATEGORY
    /\ \A i \in 1..Len(fetched) : fetched[i].has_next /\ fetched[i].tools # <<>>

\* Where the claim's listing stops: no next-page signal, no card on a page
\* other than the first, or the page cap.
C6_Stops(f, i) ==
    \/ ~f[i].has_next
    \/ (i > 1 /\ f[i].tools = <<>>)
    \/ i = MAX_PAGES_PER_CATEGORY

\* C6: the paginator returns the cards of pages 1..S in page order, S being
\* the first page with no next-page signal, or with no card and not the first,
\* or the page cap; page 1 is always fetched, and an empty page 1 that signals
\* a next page does not stop the listing.
C6_PaginatorResult ==
    lpc = "done" =>
        LET n == Len(fetched)
        IN /\ n >= 1
           /\ \A i \in 1..n : fetched[i].page = i /\ ~fetched[i].raised
           /\ C6_Stops(fetched, n)
           /\ \A i \in 1..(n - 1) : ~C6_Stops(fetched, i)
           /\ all_tools = Flatten([i \in 1..n |-> fetched[i].tools])

C6_Witness ==
    /\ lpc = "done"
    /\ Len(fetched) = 3
    /\ fetched[1].tools = <<>>
    /\ fetched[1].has_next
    /\ Len(fetched[2].tools) = 2
    /\ fetched[3].tools = <<>>
    /\ fetched[3].has_next
    /\ Len(all_tools) = 2

\* C7 (as claimed): a run returns false exactly when the listing gave no tool,
\* returns true whenever it gave one (also when every task failed and the CSV
\* could not be written), and ends otherwise only when the listing itself
\* raised.
C7_ReturnValue ==
    /\ pc = "returned" => (ret = "false" <=> all_tools = <<>>)
    /\ pc = "returned" => (ret = "true" <=> all_tools # <<>>)
    /\ pc = "raised" => lpc = "raised"
    /\ pc \notin {"returned"} => ret = "none"

\* C8 (as claimed): whatever translate_dict returns has the key set of its
\* input, on the passthrough path and on the live path alike.
C8_KeysPreserved ==
    tpc = "returned" =>
        /\ t_out.ret.type = "dict"
        /\ DOMAIN t_out.ret.d = DOMAIN t_in.payload

\* The translation request of a language did not give a JSON object: the call
\* failed, the content is no JSON, or the JSON is a list, a string, ...
C9_TranslationFailed(lang) ==
    LET resp == e_in.env.tr[lang]
    IN \/ resp.kind # "content"
       \/ ~JsonLoadsOk(Defence(resp.toks))
       \/ ApiJson(resp.shape, [k \in {} |-> ""], lang).type # "dict"

C9_DetailFound ==
    LET ff == ScrapeDetailFetchfox(e_in.keys.fetchfox, e_in.env)
    IN ~ff.raised /\ (ff.none => ~ScrapeDetailBs4(e_in.env).raised)

\* C9 (as claimed): whatever the translation request does (network error,
\* non-2xx, malformed JSON, JSON that is a list or a string), the language gets
\* the marker-prefixed passthrough (its category from the dictionary when
\* there is one) and scrape_tool_details returns a record.
C9_TranslationNeverFatal ==
    (epc # "call" /\ e_in.stored = NoFile /\ C9_DetailFound /\ e_in.keys.openrouter # "") =>
        /\ epc = "returned"
        /\ \A lang \in Langs :
             C9_TranslationFailed(lang) =>
                \A f \in Fields :
                   e_out.data.translations[lang][f] =
                      IF f = "category" /\ CatTrans(e_in.category, lang) # ""
                      THEN CatTrans(e_in.category, lang)
                      ELSE "[TRANSLATE-" \o lang \o "] " \o e_out.data.translations["en"][f]

\* C10: with no translation credential, translate_dict makes no request and
\* returns, for every input key and every one of the four target languages,
\* "[TRANSLATE-<lang>] " followed by the original value.
C10_NoKeyPassthrough ==
    (tpc = "returned" /\ t_in.api_key = "") =>
        /\ t_out.posts = 0
        /\ t_out.ret.type = "dict"
        /\ DOMAIN t_out.ret.d = DOMAIN t_in.payload
        /\ \A k \in DOMAIN t_in.payload :
             t_out.ret.d[k] = "[TRANSLATE-" \o t_in.lang \o "] " \o t_in.payload[k]

C10_Witness ==
    /\ tpc = "returned"
    /\ t_in.api_key = ""
    /\ t_in.lang = "de"
    /\ DOMAIN t_in.payload = PayloadKeys
    /\ t_in.resp.kind = "content"
    /\ t_out.ret.d["title"] = "[TRANSLATE-de] x"

\* How many times x occurs in the sequence q.
Count(x, q) == Cardinality({i \in DOMAIN q : q[i] = x})

\* C11 (as claimed): the structured-extraction call never makes its caller
\* raise: with no key no POST is made, and for a failed call or an answer that
\* is no usable object the detail path goes on to the HTML fetch.
C11_StructuredNeverRaises ==
    (epc # "call" /\ e_in.stored = NoFile) =>
        /\ e_in.keys.fetchfox = "" => Count("fetchfox", e_out.calls) = 0
        /\ (e_in.keys.fetchfox = "" \/ e_in.env.ff # "dict") => Count("get", e_out.calls) = 1

\* C12 (as claimed): with a key, a structured-extraction call whose transport
\* keeps failing is attempted CONN_RETRIES times before None is returned.
C12_ThreeAttempts ==
    (epc # "call" /\ e_in.stored = NoFile /\ e_in.keys.fetchfox # "" /\ e_in.env.ff = "fail") =>
        Count("fetchfox", e_out.calls) = CONN_RETRIES

\* C13 (as claimed): a translation request that fails in transport (timeout,
\* 5xx) is sent again before the marker-prefixed passthrough is returned.
C13_TranslationRetried ==
    (tpc = "returned" /\ t_in.api_key # "" /\ t_in.resp.kind \in {"neterr", "http"}) =>
        t_out.posts > 1

\* Structured extraction returned None: no key, a failed call, a falsy answer.
C14_StructNull == e_in.keys.fetchfox = "" \/ e_in.env.ff \in {"fail", "empty"}

\* C14: for a tool with no record, the structured POST (if any) comes first,
\* the HTML GET is made exactly when structured extraction returned None (a
\* structured object with empty fields never triggers it), and the record is
\* built from that one source.
C14_FallbackIffNull ==
    (epc # "call" /\ e_in.stored = NoFile
       /\ ~(e_in.keys.fetchfox # "" /\ e_in.env.ff = "list")) =>
        /\ Count("get", e_out.calls) = (IF C14_StructNull THEN 1 ELSE 0)
        /\ Count("fetchfox", e_out.calls) = (IF e_in.keys.fetchfox = "" THEN 0 ELSE 1)
        /\ \A i, j \in DOMAIN e_out.calls :
             (e_out.calls[i] = "fetchfox" /\ e_out.calls[j] = "get") => i < j
        /\ epc = "returned" =>
             LET src == IF C14_StructNull THEN e_in.env.html ELSE e_in.env.ffd
                 en == e_out.data.translations["en"]
             IN /\ en["longDescription"] = src.desc
                /\ en["title"] = (IF src.title # "" THEN src.title ELSE e_in.tool.name)

C14_Witness ==
    /\ epc = "returned"
    /\ e_in.stored = NoFile
    /\ e_in.keys.fetchfox # ""
    /\ e_in.env.ff = "dict"
    /\ e_in.env.ffd = NoDetail
    /\ e_in.env.html.title = "H"
    /\ Count("get", e_out.calls) = 0
    /\ e_out.data.translations["en"]["title"] = e_in.tool.name

\* C15 (as claimed): an HTML GET that fails after its retries never makes
\* scrape_category raise.
C15_GetFailureContained == ~(pc = "raised" /\ lpc = "raised")

\* The structured answer for a listing page has nothing to use: None, no
\* "cards", or no card with an href.
C16_NothingUsable ==
    \/ f_in.api_key = ""
    \/ f_in.env.ff \in {"none", "nocards"}
    \/ (f_in.env.ff = "cards" /\ \A i \in DOMAIN f_in.env.ffcards : f_in.env.ffcards[i].slug = "")

\* C16 (as claimed): whenever the structured answer for a listing page has
\* nothing to use, the page is parsed from the fetched HTML.
C16_ListingFallback ==
    (fpc # "call" /\ C16_NothingUsable) => f_out.path = "bs4"

\* The cards the page result was made from, without those that have no href.
C17_Usable ==
    SelectSeq(IF f_out.path = "fetchfox" THEN f_in.env.ffcards ELSE f_in.env.html,
              LAMBDA c : c.slug # "")

\* C17: within one listing page, the cards of one slug give exactly one
\* ToolInfo, with the fields of the last of them: the slugs of the page result
\* are pairwise distinct.
C17_PageDedup ==
    fpc = "returned" =>
        /\ \A i, j \in DOMAIN f_out.tools :
             f_out.tools[i].slug = f_out.tools[j].slug => i = j
        /\ {f_out.tools[i].slug : i \in DOMAIN f_out.tools}
             = {C17_Usable[i].slug : i \in DOMAIN C17_Usable}
        /\ \A i \in DOMAIN f_out.tools :
             \E k \in DOMAIN C17_Usable :
                /\ C17_Usable[k].slug = f_out.tools[i].slug
                /\ C17_Usable[k].name = f_out.tools[i].name
                /\ \A m \in DOMAIN C17_Usable :
                     C17_Usable[m].slug = f_out.tools[i].slug => m <= k

C17_Witness ==
    /\ fpc = "returned"
    /\ f_out.path = "bs4"
    /\ Len(f_in.env.html) = 3
    /\ f_in.env.html[1] = Card("a", "n1")
    /\ f_in.env.html[3] = Card("a", "n2")
    /\ Len(f_out.tools) = 2
    /\ \E i \in DOMAIN f_out.tools : f_out.tools[i] = ToolInfo("a", "n2")

C18_Priority ==
    <<"assistant", "generator", "research", "writing", "image", "video", "audio", "code">>

\* A keyword of the category is a substring of the lower-cased text.
C18_Matches(cat, words) ==
    \E w \in words : \E k \in KeywordSet(cat) : Occurs(k, Lower(w))

\* C18: appType is the first category of the fixed order whose keywords match
\* the lower-cased text, and "other" when none does.
C18_AppTypePriority ==
    fpc = "returned" =>
        IF \E i \in DOMAIN C18_Priority : C18_Matches(C18_Priority[i], f_in)
        THEN \E i \in DOMAIN C18_Priority :
               /\ f_out = C18_Priority[i]
               /\ C18_Matches(C18_Priority[i], f_in)
               /\ \A j \in 1..(i - 1) : ~C18_Matches(C18_Priority[j], f_in)
        ELSE f_out = "other"

C18_Witness ==
    /\ fpc = "returned"
    /\ {"Chatbot", "Generator"} \subseteq f_in
    /\ f_out = "assistant"

\* C19: in a record that scrape_tool_details builds, translations[lang].category
\* of each of es, pt, fr, de is the dictionary's entry when the category is in
\* CATEGORY_TRANSLATIONS, whatever the translation answered; for a category
\* outside the dictionary the value the translation gave is kept.
C19_CategoryOverride ==
    (epc = "returned" /\ e_in.stored = NoFile) =>
        \A lang \in Langs :
           LET got == e_out.data.translations[lang]["category"]
               t == translate_dict(e_in.keys.openrouter, e_out.data.translations["en"],
                                   lang, e_in.env.tr[lang]).ret
           IN IF e_in.category \in DOMAIN CATEGORY_TRANSLATIONS
              THEN got = CATEGORY_TRANSLATIONS[e_in.category][lang]
              ELSE (t.type = "dict" /\ "category" \in DOMAIN t.d) => got = t.d["category"]

C19_Witness ==
    /\ epc = "returned"
    /\ e_in.stored = NoFile
    /\ e_in.category = "code-assistant"
    /\ e_in.keys.openrouter # ""
    /\ e_in.env.tr["fr"] = TrSame
    /\ e_out.data.translations["fr"]["title"] = "fr:" \o e_out.data.translations["en"]["title"]
    /\ e_out.data.translations["fr"]["category"] = "assistant-code"

\* C20 (as claimed): in every record that scrape_tool_details builds, each of
\* es, pt, en, fr, de has exactly the seven fields of the en base, whatever
\* the translation answered.
C20_FieldSets ==
    (epc = "returned" /\ e_in.stored = NoFile) =>
        \A lang \in AllLangs : DOMAIN e_out.data.translations[lang] = Fields

\* The tasks whose record file is open for writing.
C21_Writing == {i \in DOMAIN tstat : tstat[i] = "saving"}

\* A worker's step: a task is taken from the queue or runs to its end.
C21_WorkerStep ==
    \E i \in DOMAIN tstat :
       /\ i \in DOMAIN tstat'
       /\ \/ tstat[i] = "queued" /\ tstat'[i] \in {"running", "done"}
          \/ tstat[i] = "running" /\ tstat'[i] = "done"

\* The calling thread's step: the construction of the scraper, or a step of
\* the loop body for one future.
C21_OrchestratorStep ==
    \/ pc # "listing" /\ pc' = "listing"
    \/ \E i \in DOMAIN tstat :
          /\ i \in DOMAIN tstat'
          /\ tstat[i] \in {"done", "saving"}
          /\ tstat'[i] \in {"saving", "saved", "unsaved"}
          /\ tstat'[i] # tstat[i]

\* C21: an enrichment task changes neither the record store nor the seen-set:
\* under every interleaving of the pool every record write and every seen-set
\* update is a step of the orchestrator, and at most one record file is open
\* for writing at any time.
C21_OrchestratorWrites ==
    /\ [](Cardinality(C21_Writing) <= 1)
    /\ [][C21_WorkerStep => (store' = store /\ seen' = seen /\ writes' = writes)]_vars
    /\ [][(store' # store \/ seen' # seen) => C21_OrchestratorStep]_vars

C21_Witness ==
    /\ pc = "pool"
    /\ \E i, j, k \in DOMAIN tstat :
          /\ tstat[i] = "saving"
          /\ tstat[j] = "done"
          /\ tstat[k] = "running"
          /\ store[TaskSlug(i)] = Truncated

\* A task that has been submitted and has not been collected yet.
C22_Pending(i) == tstat[i] \in {"queued", "running", "done", "saving"}

\* C22: in a batch the categories are processed strictly one after the other:
\* category k+1 begins (its listing, tasks and writes with it) only when the
\* run of category k has returned (after its CSV write when it listed a tool)
\* with no task of its pool pending, and while a category is in progress every
\* category before it has returned.
C22_SequentialCategories ==
    /\ [][idx' # idx =>
            /\ idx' = idx + 1
            /\ idx >= 1 =>
                 /\ pc = "returned"
                 /\ \A i \in DOMAIN tstat : ~C22_Pending(i)
                 /\ ret = "true" => csv_saved # "none"]_vars
    /\ []((idx >= 1 /\ pc \in {"listing", "pool"}) => Len(oks) = idx - 1)

C22_Witness ==
    /\ idx = 2
    /\ oks = <<TRUE>>
    /\ pc = "pool"
    /\ \E i \in DOMAIN tstat : tstat[i] = "running"
    /\ \E s \in Slugs : Persisted(store, s)

\* C23: within a category run the records are read back and the CSV written
\* only once every dispatched task has completed and been collected: no task
\* is queued, running or uncollected when the run leaves the pool.
C23_CsvAfterTasks ==
    /\ []((pc \in {"returned", "raised"} \/ csv_saved # "none") =>
            \A i \in DOMAIN tstat : tstat[i] \in {"saved", "unsaved", "failed"})
    /\ [][(pc = "pool" /\ pc' # "pool") =>
            \A i \in DOMAIN tstat : tstat[i] \in {"saved", "unsaved", "failed"}]_vars

C23_Witness ==
    /\ pc = "returned"
    /\ csv_saved = "ok"
    /\ Len(tstat) = MAX_PAGES_PER_CATEGORY
    /\ \E i, j \in DOMAIN tstat : tstat[i] = "saved" /\ tstat[j] = "failed"

\* C24: a record is persisted as its task is collected, not at the end of the
\* batch: a completed task can be collected while other tasks are queued or
\* running; when its write goes through, the store holds the record and the
\* slug is in the seen-set in that very step; and leaving the pool writes no
\* record.
C24_ImmediatePersist ==
    /\ [](\A i \in DOMAIN tstat :
            (pc = "pool" /\ tstat[i] = "done" /\ ~\E j \in DOMAIN tstat : tstat[j] = "saving")
               => ENABLED Collect(i))
    /\ [](\A i \in DOMAIN tstat : tstat[i] = "saving" => ENABLED CollectEnd(i))
    /\ [][\A i \in DOMAIN tstat :
            (tstat[i] = "saving" /\ i \in DOMAIN tstat' /\ tstat'[i] = "saved") =>
               /\ store'[TaskSlug(i)] = tres[i].data
               /\ TaskSlug(i) \in seen'
               /\ results' = Append(results, tres[i].data)]_vars
    /\ [][(pc = "pool" /\ pc' # "pool") => (store' = store /\ seen' = seen)]_vars

C24_Witness ==
    /\ pc = "pool"
    /\ \E i, j \in DOMAIN tstat :
          /\ tstat[i] = "saved"
          /\ Persisted(store, TaskSlug(i))
          /\ TaskSlug(i) \in seen
          /\ tstat[j] = "running"

\* C25: at any moment of a category run at most max_workers enrichment tasks
\* are executing, however many tools were dispatched.
C25_PoolBound == Cardinality({i \in DOMAIN tstat : tstat[i] = "running"}) <= max_workers

C25_Witness ==
    /\ Cardinality({i \in DOMAIN tstat : tstat[i] = "running"}) = max_workers
    /\ \E i \in DOMAIN tstat : tstat[i] = "queued"
    /\ Len(tstat) > max_workers

\* C26 (as claimed): a run whose listed tools are all in the seen-set
\* dispatches no task, leaves the seen-set as it was, returns true, and the
\* CSV it writes has the rows of the listed tools' records.
C26_NothingUnseen ==
    (/\ pc \in {"returned", "raised"}
     /\ lpc = "idle"
     /\ all_tools # <<>>
     /\ \A i \in DOMAIN all_tools : all_tools[i].slug \in seen0) =>
        /\ pc = "returned"
        /\ ret = "true"
        /\ tstat = <<>>
        /\ seen = seen0
        /\ csv_saved = "ok" => csv = [i \in DOMAIN all_tools |-> all_tools[i].slug]

\* C27 (as claimed): in one category run no slug is dispatched twice, also
\* when several pages of the listing carry it.
C27_DispatchedOnce ==
    \A i, j \in DOMAIN to_process : to_process[i].slug = to_process[j].slug => i = j

\* C28 (as claimed): every slug of the seen-set has a persisted record (a
\* record file holding a whole record).
C28_SeenPersisted == \A s \in seen : Persisted(store, s)

\* C29: on the structured path of a listing page, when the GET that probes
\* the next-page signal fails, _list_page_tools returns without raising: the
\* page result is made of the cards of the structured answer, has_next is
\* False, and the paginator's test stops the listing at this page.
C29_ProbeFailureSwallowed ==
    (fpc # "call" /\ f_in.api_key # "" /\ f_in.env.ff = "cards" /\ f_in.env.get = "fail") =>
        /\ fpc = "returned"
        /\ f_out.path = "fetchfox"
        /\ f_out.tools = Uniq(FromFetchfoxCards(f_in.env.ffcards))
        /\ f_out.has_next = FALSE
        /\ StopOnNoNext(f_out.has_next)
        /\ f_out.posts = 1
        /\ f_out.gets = 1

C29_Witness ==
    /\ fpc = "returned"
    /\ f_in.api_key # ""
    /\ f_in.env.ff = "cards"
    /\ f_in.env.get = "fail"
    /\ Len(f_in.env.ffcards) >= 2
    /\ Len(f_out.tools) >= 1
    /\ ~f_out.has_next

\* C30 (as claimed): under fairness every dispatched task is eventually
\* collected, as a saved record or a failure, and the run that dispatched it
\* eventually returns.
C30_CollectedAndReturns ==
    /\ \A i \in 1..MAX_PAGES_PER_CATEGORY :
          []((i \in DOMAIN tstat /\ tstat[i] = "queued") =>
                <>(i \in DOMAIN tstat /\ tstat[i] \in {"saved", "unsaved", "failed"}))
    /\ [](pc = "pool" => <>(pc = "returned"))

====
